---- MODULE Spec2Model ----
(***************************************************************************)
(* ShortcutsPortal (src/src/shortcutsPortal.cpp): the bridge between the   *)
(* host's hotkeys and the desktop's GlobalShortcuts portal.                *)
(*                                                                         *)
(* The object's members, the D-Bus connections it makes, the replies and   *)
(* signals still on the bus, and the calls queued on the owning event loop *)
(* are the state.  Every method, slot and callback of the class is one     *)
(* action.  The host (hotkeys, scenes) and the portal service are the      *)
(* environment: they supply inputs and take calls.                         *)
(***************************************************************************)
EXTENDS Integers, Sequences, FiniteSets, TLC

(***************************************************************************)
(* Bounds of the exploration.                                              *)
(***************************************************************************)
MaxHotkeys == 3
MaxQueued == 1
MaxDerived == 3

(***************************************************************************)
(* The host's hotkeys, as obs_enum_hotkeys can report them.  A C string is *)
(* <<>> for a null pointer and <<s>> for a pointer to s.                   *)
(***************************************************************************)
HotkeyPool ==
    << [id |-> 7, description |-> <<"Mute">>, name |-> <<"libobs.mute">>,
        registerer_type |-> "SOURCE", registerer |-> TRUE, live |-> TRUE,
        registerer_name |-> <<"Mic">>],
       [id |-> 42, description |-> <<>>, name |-> <<"OBSBasic.StartRecording">>,
        registerer_type |-> "FRONTEND", registerer |-> FALSE, live |-> FALSE,
        registerer_name |-> <<>>],
       [id |-> 100, description |-> <<"">>, name |-> <<>>,
        registerer_type |-> "SOURCE", registerer |-> TRUE, live |-> FALSE,
        registerer_name |-> <<"Gone">>],
       [id |-> 3, description |-> <<"Stop">>, name |-> <<"out.stop">>,
        registerer_type |-> "OUTPUT", registerer |-> TRUE, live |-> TRUE,
        registerer_name |-> <<"adv_file_output">>] >>

\* The scene names the host may hold, in the order it lists them.
ScenePool == << "Scene", "", "Game", "Scene 2" >>

Min(a, b) == IF a < b THEN a ELSE b

HotkeyIndices == 1 .. Min(MaxHotkeys, Len(HotkeyPool))

SceneNames == { ScenePool[i] : i \in 1 .. Len(ScenePool) }

Binding(id) == HotkeyPool[CHOOSE i \in 1 .. Len(HotkeyPool) : HotkeyPool[i].id = id]

HotkeyIds == { HotkeyPool[i].id : i \in HotkeyIndices }

\* While the event loop is followed handler by handler the host registers
\* and unregisters one hotkey of the pool and adds and removes two of its
\* scenes, one of them without a name.  Lists of several hotkeys and scenes
\* are resynced and bound under SpecResync.
LiveHotkeyIds == { HotkeyPool[1].id }

LiveSceneNames == { ScenePool[1], ScenePool[2] }

(***************************************************************************)
(* Conversions.                                                            *)
(***************************************************************************)
Digit(d) ==
    CASE d = 0 -> "0" [] d = 1 -> "1" [] d = 2 -> "2" [] d = 3 -> "3"
      [] d = 4 -> "4" [] d = 5 -> "5" [] d = 6 -> "6" [] d = 7 -> "7"
      [] d = 8 -> "8" [] d = 9 -> "9"

RECURSIVE QStringNumber(_)
\* QString::number(id): the decimal digits, most significant first.
QStringNumber(n) ==
    IF n < 10 THEN Digit(n) ELSE QStringNumber(n \div 10) \o Digit(n % 10)

\* QCryptographicHash::hash(bytes, Md5).toHex() on the names of ScenePool.
Md5Hex(bytes) ==
    CASE bytes = "Scene"   -> "9ead0d38e06ec253ca0ecbf6ea56e59b"
      [] bytes = ""        -> "d41d8cd98f00b204e9800998ecf8427e"
      [] bytes = "Game"    -> "63d72051e901c069f8aa1b32aa0c43bb"
      [] bytes = "Scene 2" -> "69ae74bd807f01a1e207535f6cde3856"

\* QString::fromUtf8(p) of a C string: a null pointer gives the empty string.
FromUtf8(cstr) == IF cstr = <<>> THEN "" ELSE cstr[1]

\* The id made of the last digit only.
HotkeyUniqueIdLastDigit(id) == "hk_" \o Digit(id % 10)

\* uniqueId = "hk_" + QString::number(id)
HotkeyUniqueId(id) == "hk_" \o QStringNumber(id)

SceneId(qName) == "scene_" \o Md5Hex(qName)

(***************************************************************************)
(* The registry m_shortcuts: a QMap from the shortcut's name to            *)
(* PortalShortcut{name, description, callbackFunc}.  A callback is the     *)
(* lambda's kind and what it captured.                                     *)
(***************************************************************************)
EmptyMap == [k \in {} |-> {}]

HotkeyCallback(id) == [kind |-> "hotkey", id |-> id, qName |-> ""]

ToggleCallback(what) == [kind |-> what, id |-> 0, qName |-> ""]

SceneCallback(qName) == [kind |-> "scene", id |-> 0, qName |-> qName]

\* m_shortcuts[name] = PortalShortcut{name, description, callbackFunc}
createShortcut(shortcuts, name, description, callbackFunc) ==
    [k \in DOMAIN shortcuts \cup {name} |->
        IF k = name
        THEN [name |-> name, description |-> description, callbackFunc |-> callbackFunc]
        ELSE shortcuts[k]]

\* The label the enumeration lambda builds for one hotkey.
HotkeyDescription(binding) ==
    LET description0 == FromUtf8(binding.description)
        description1 ==
            IF description0 = ""
            THEN (IF binding.name = <<>> THEN "Unknown Hotkey" ELSE FromUtf8(binding.name))
            ELSE description0
        name ==
            IF ~binding.registerer THEN <<>>
            ELSE IF binding.registerer_type = "SOURCE"
                 THEN (IF binding.live THEN binding.registerer_name ELSE <<>>)
            ELSE IF binding.registerer_type \in {"OUTPUT", "ENCODER", "SERVICE"}
                 THEN binding.registerer_name
            ELSE <<>>
        namePrefix == FromUtf8(name)
    IN  IF namePrefix # ""
        THEN "[" \o namePrefix \o "] " \o description1
        ELSE description1

\* The hotkeys the host holds, in the order obs_enum_hotkeys visits them.
HotkeyOrder(hotkeys) ==
    LET all == [i \in 1 .. Len(HotkeyPool) |-> HotkeyPool[i].id]
    IN  SelectSeq(all, LAMBDA id : id \in hotkeys)

\* The scenes obs_frontend_get_scenes returns, in the host's order.
SceneOrder(scenes) == SelectSeq(ScenePool, LAMBDA n : n \in scenes)

RECURSIVE EnumHotkeys(_, _)
\* obs_enum_hotkeys with the lambda of createShortcuts: one entry per hotkey.
EnumHotkeys(shortcuts, ids) ==
    IF ids = <<>> THEN shortcuts
    ELSE EnumHotkeys(
            createShortcut(shortcuts, HotkeyUniqueId(Head(ids)),
                           HotkeyDescription(Binding(Head(ids))),
                           HotkeyCallback(Head(ids))),
            Tail(ids))

\* The five fixed toggle shortcuts, in the order createShortcuts adds them.
AddToggles(shortcuts) ==
    LET s1 == createShortcut(shortcuts, "_toggle_recording", "Toggle Recording",
                             ToggleCallback("recording"))
        s2 == createShortcut(s1, "_toggle_streaming", "Toggle Streaming",
                             ToggleCallback("streaming"))
        s3 == createShortcut(s2, "_toggle_replay_buffer", "Toggle Replay Buffer",
                             ToggleCallback("replay_buffer"))
        s4 == createShortcut(s3, "_toggle_virtualcam", "Toggle Virtual Camera",
                             ToggleCallback("virtualcam"))
    IN  createShortcut(s4, "_toggle_studio_mode", "Toggle Studio Mode",
                       ToggleCallback("studio_mode"))

RECURSIVE AddScenesNoSkip(_, _)
\* The scene loop without the isEmpty() test.
AddScenesNoSkip(shortcuts, names) ==
    IF names = <<>> THEN shortcuts
    ELSE AddScenesNoSkip(
            createShortcut(shortcuts, SceneId(Head(names)),
                           "Switch to scene '" \o Head(names) \o "'",
                           SceneCallback(Head(names))),
            Tail(names))

RECURSIVE AddScenes(_, _)
\* The scene loop: a scene whose name is empty is skipped.
AddScenes(shortcuts, names) ==
    IF names = <<>> THEN shortcuts
    ELSE LET qName == Head(names)
         IN  IF qName = ""
             THEN AddScenes(shortcuts, Tail(names))
             ELSE AddScenes(
                     createShortcut(shortcuts, SceneId(qName),
                                    "Switch to scene '" \o qName \o "'",
                                    SceneCallback(qName)),
                     Tail(names))

\* createShortcuts without the clear().
NoClear(shortcuts) == shortcuts

\* m_shortcuts.clear()
Clear(shortcuts) == EmptyMap

\* createShortcuts(): clear, then hotkeys, then toggles, then scenes.
createShortcuts(shortcuts, hotkeys, scenes) ==
    AddScenes(AddToggles(EnumHotkeys(Clear(shortcuts), HotkeyOrder(hotkeys))),
              SceneOrder(scenes))

(***************************************************************************)
(* QMap iterates in key order (QString operator<, by code unit).  A key is *)
(* "_toggle_..." (0x5F), "hk_" and decimal digits (0x68) or "scene_" and   *)
(* hexadecimal digits (0x73), so the descriptors order by class first.     *)
(***************************************************************************)
ToggleKeyOrder ==
    << "recording", "replay_buffer", "streaming", "studio_mode", "virtualcam" >>

\* The names of ScenePool in the order of their "scene_" keys.
SceneKeyOrder == << "Game", "Scene 2", "Scene", "" >>

IndexOf(seq, x) == CHOOSE i \in 1 .. Len(seq) : seq[i] = x

RECURSIVE Digits(_)
Digits(n) == IF n < 10 THEN << n >> ELSE Append(Digits(n \div 10), n % 10)

RECURSIVE LexLess(_, _)
LexLess(a, b) ==
    IF b = <<>> THEN FALSE
    ELSE IF a = <<>> THEN TRUE
    ELSE IF Head(a) # Head(b) THEN Head(a) < Head(b)
    ELSE LexLess(Tail(a), Tail(b))

KeyClass(cb) == IF cb.kind = "hotkey" THEN 2 ELSE IF cb.kind = "scene" THEN 3 ELSE 1

KeyLess(x, y) ==
    LET cx == x.callbackFunc
        cy == y.callbackFunc
    IN  IF KeyClass(cx) # KeyClass(cy) THEN KeyClass(cx) < KeyClass(cy)
        ELSE IF KeyClass(cx) = 1
             THEN IndexOf(ToggleKeyOrder, cx.kind) < IndexOf(ToggleKeyOrder, cy.kind)
        ELSE IF KeyClass(cx) = 2 THEN LexLess(Digits(cx.id), Digits(cy.id))
        ELSE IndexOf(SceneKeyOrder, cx.qName) < IndexOf(SceneKeyOrder, cy.qName)

RECURSIVE InKeyOrder(_, _)
InKeyOrder(shortcuts, keys) ==
    IF keys = {} THEN <<>>
    ELSE LET first == CHOOSE k \in keys :
                        \A o \in keys \ {k} : KeyLess(shortcuts[k], shortcuts[o])
         IN  << shortcuts[first] >> \o InKeyOrder(shortcuts, keys \ {first})

\* The list without the entry of the smallest key.
ShortcutListTail(shortcuts) ==
    LET values == InKeyOrder(shortcuts, DOMAIN shortcuts)
    IN  [i \in 1 .. Len(values) - 1 |->
            [name |-> values[i + 1].name, description |-> values[i + 1].description]]

\* The list bindShortcuts builds: one (name, {description}) pair per entry.
ShortcutList(shortcuts) ==
    LET values == InKeyOrder(shortcuts, DOMAIN shortcuts)
    IN  [i \in 1 .. Len(values) |->
            [name |-> values[i].name, description |-> values[i].description]]

(***************************************************************************)
(* The portal service and the bus, as the class sees them.                 *)
(***************************************************************************)
\* The object path of a request: derived from the caller's handle_token.
RequestPath(token) == "/org/freedesktop/portal/desktop/request/obs/" \o token

\* The session handles the portal may hand out.
SessionHandles ==
    { "/org/freedesktop/portal/desktop/session/obs/s1",
      "/org/freedesktop/portal/desktop/session/obs/s2" }

\* The handle an Activated or Deactivated signal names.  The handles are
\* interchangeable, so the signal's is fixed and the stored one varies.
SignalSessions == { "/org/freedesktop/portal/desktop/session/obs/s1" }

\* The payload of a Response: <<>> without session_handle, <<h>> with it.
ResultsOf(method) ==
    IF method = "CreateSession"
    THEN {<<>>} \cup { << h >> : h \in SessionHandles }
    ELSE {<<>>}

MessageTypes == { "ReplyMessage", "ErrorMessage" }

WindowIds == { "", "wayland:obs" }

FrontendEvents ==
    { "FINISHED_LOADING", "SCENE_LIST_CHANGED", "SCENE_COLLECTION_CHANGED",
      "PROFILE_CHANGED", "EXIT" }

SyntheticIds ==
    { "_toggle_recording", "_toggle_streaming", "_toggle_replay_buffer",
      "_toggle_virtualcam", "_toggle_studio_mode" }

\* The shortcut ids an Activated or Deactivated signal may carry: those of
\* the registry and one that no resync derives.
SignalIds(shortcuts) == DOMAIN shortcuts \cup { "hk_999" }

VARIABLES
    m_handleToken,          \* handle_token of every request
    m_sessionHandleToken,   \* session_handle_token of CreateSession
    m_responseHandle,       \* request path returned by CreateSession
    m_sessionObjPath,       \* the session handle; "" while unset
    m_isLoaded,             \* FINISHED_LOADING was seen
    m_shortcuts,            \* the registry
    responseSlots,          \* request paths whose Response runs onCreateSessionResponse
    activationSlots,        \* the signals connected to onActivatedSignal / onDeactivatedSignal
    pending,                \* Responses the portal owes and has not yet emitted
    posted,                 \* the event queue of the portal's thread: slot calls and lambdas
    hotkeys,                \* host: ids of the registered hotkeys
    scenes,                 \* host: names of the scenes
    status,                 \* "alive", "crashed" or "destroyed"
    usedTokens,             \* the handle tokens earlier requests carried
    event,                  \* what the latest step handled
    sent,                   \* the remote calls the latest step made
    invoked,                \* the callbacks the latest step invoked
    resyncPc,               \* how far a createShortcuts() pass in progress has come
    createPc                \* where a createSession() in progress stands

vars ==
    << m_handleToken, m_sessionHandleToken, m_responseHandle, m_sessionObjPath,
       m_isLoaded, m_shortcuts, responseSlots, activationSlots, pending, posted,
       hotkeys, scenes, status, usedTokens,
       event, sent, invoked, resyncPc, createPc >>

Event(ev, name, session, handled) ==
    [ev |-> ev, name |-> name, session |-> session, handled |-> handled]

\* Between two handlers the event loop is idle.
Idle == Event("idle", "", "", FALSE)

\* The loop of the portal's thread is between two handlers.
LoopIdle == event = Idle

\* A step of another thread taken here is told apart from the same step
\* taken once the handler has returned: the portal's thread is between two
\* handlers or inside one that is followed in steps.
MidHandler == event = Idle \/ resyncPc # "none" \/ createPc = "returned"

\* The entries of the event queue of the portal's thread, run in the order
\* they were posted.  A call of onCreateSessionResponse is posted when a
\* Response arrives and a connection matches it; `tied` marks the second
\* call posted for one Response.
SlotCall(method, results, tied) ==
    [kind |-> "Response", method |-> method, results |-> results, tied |-> tied]

\* A call of onActivatedSignal or onDeactivatedSignal, posted when the
\* signal arrives; its arguments are read when the slot runs.
SignalCall(signal) == [kind |-> signal, method |-> "", results |-> <<>>, tied |-> FALSE]

\* The lambda posted by QMetaObject::invokeMethod(..., Qt::QueuedConnection).
QueuedLambda == [kind |-> "lambda", method |-> "", results |-> <<>>, tied |-> FALSE]

\* The lambdas posted and not yet run.
queued == Cardinality({ i \in DOMAIN posted : posted[i].kind = "lambda" })

\* The entries the queue may hold, the Responses the portal still owes
\* counted with them.
MaxPosted == MaxQueued + 1

\* At the bound the portal answers a request by an error, which it may do
\* at any time, and no further lambda or signal is posted.
Outstanding(waiting, queue) == Cardinality(waiting) + Len(queue)

\* The queue without its first lambda.
WithoutFirstLambda(q) ==
    LET i == CHOOSE i \in DOMAIN q :
                 q[i].kind = "lambda" /\ \A j \in 1 .. i - 1 : q[j].kind # "lambda"
    IN  SubSeq(q, 1, i - 1) \o SubSeq(q, i + 1, Len(q))

\* The call at the head of the queue is one of `kind`.
SlotTurn(kind) == posted # <<>> /\ Head(posted).kind = kind

\* One remote call, with what QDBusConnection::call returned for it.
RemoteCall(method, session, shortcuts, windowId, type) ==
    [method |-> method,
     handle_token |-> m_handleToken,
     session_handle_token |-> IF method = "CreateSession" THEN m_sessionHandleToken ELSE "",
     session_handle |-> session,
     shortcuts |-> shortcuts,
     parent_window |-> windowId,
     type |-> type]

\* The Response the portal owes for an accepted request.
Reply(call) ==
    [path |-> RequestPath(call.handle_token), method |-> call.method,
     handle_token |-> call.handle_token]

PendingAfter(waiting, call) ==
    IF call.type = "ReplyMessage" THEN waiting \cup { Reply(call) } ELSE waiting

Init ==
    /\ m_handleToken = "obs_wayland_hotkeys"
    /\ m_sessionHandleToken = "obs_wayland_hotkeys_session"
    /\ m_responseHandle = ""
    /\ m_sessionObjPath = ""
    /\ m_isLoaded = FALSE
    /\ m_shortcuts = EmptyMap
    /\ responseSlots = {}
    /\ activationSlots = {}
    /\ pending = {}
    /\ posted = <<>>
    /\ hotkeys = {}
    /\ scenes = {}
    /\ status = "alive"
    /\ usedTokens = {}
    /\ event = Idle
    /\ sent = <<>>
    /\ invoked = <<>>
    /\ resyncPc = "none"
    /\ createPc = "none"

(***************************************************************************)
(* The callbacks stored in the registry.  A callback's effect is the list  *)
(* of host API calls it makes; `active` is what the host answers to the    *)
(* *_active() query of a toggle.                                           *)
(***************************************************************************)
HostCall(fn, id, str, flag) == [fn |-> fn, id |-> id, str |-> str, flag |-> flag]

\* The toggle starting what is active and stopping what is not.
ToggleCallsInverted(query, stop, start, active) ==
    << HostCall(query, 0, "", active),
       IF active THEN HostCall(start, 0, "", TRUE) ELSE HostCall(stop, 0, "", FALSE) >>

\* if (obs_frontend_*_active()) stop(); else start();
ToggleCalls(query, stop, start, active) ==
    << HostCall(query, 0, "", active),
       IF active THEN HostCall(stop, 0, "", FALSE) ELSE HostCall(start, 0, "", TRUE) >>

InvokeCallback(cb, pressed, active, sceneNames) ==
    IF cb.kind = "hotkey"
    THEN << HostCall("obs_hotkey_trigger_routed_callback", cb.id, "", pressed) >>
    ELSE IF ~pressed THEN <<>>
    ELSE IF cb.kind = "recording"
         THEN ToggleCalls("obs_frontend_recording_active", "obs_frontend_recording_stop",
                          "obs_frontend_recording_start", active)
    ELSE IF cb.kind = "streaming"
         THEN ToggleCalls("obs_frontend_streaming_active", "obs_frontend_streaming_stop",
                          "obs_frontend_streaming_start", active)
    ELSE IF cb.kind = "replay_buffer"
         THEN ToggleCalls("obs_frontend_replay_buffer_active",
                          "obs_frontend_replay_buffer_stop",
                          "obs_frontend_replay_buffer_start", active)
    ELSE IF cb.kind = "virtualcam"
         THEN ToggleCalls("obs_frontend_virtualcam_active", "obs_frontend_stop_virtualcam",
                          "obs_frontend_start_virtualcam", active)
    ELSE IF cb.kind = "studio_mode"
         THEN ToggleCalls("obs_frontend_preview_program_mode_active",
                          "obs_frontend_set_preview_program_mode",
                          "obs_frontend_set_preview_program_mode", active)
    ELSE IF cb.qName \in sceneNames
         THEN << HostCall("obs_get_source_by_name", 0, cb.qName, TRUE),
                 HostCall("obs_frontend_set_current_scene", 0, cb.qName, TRUE),
                 HostCall("obs_source_release", 0, cb.qName, TRUE) >>
    ELSE << HostCall("obs_get_source_by_name", 0, cb.qName, FALSE) >>

\* RouterLookup without the contains() test: operator[] adds a default entry.
RouterLookupNoContains(shortcuts, shortcutName) ==
    [shortcuts |-> IF shortcutName \in DOMAIN shortcuts THEN shortcuts
                   ELSE createShortcut(shortcuts, shortcutName, "", ToggleCallback("")),
     found |-> IF shortcutName \in DOMAIN shortcuts
               THEN << shortcuts[shortcutName] >> ELSE <<>>]

\* if (m_shortcuts.contains(shortcutName)) m_shortcuts[shortcutName] ...
\* The registry afterwards and the descriptors whose callback is to run.
RouterLookup(shortcuts, shortcutName) ==
    IF shortcutName \in DOMAIN shortcuts
    THEN [shortcuts |-> shortcuts, found |-> << shortcuts[shortcutName] >>]
    ELSE [shortcuts |-> shortcuts, found |-> <<>>]

\* The body shared by onActivatedSignal (pressed) and onDeactivatedSignal.
Route(signal, session, shortcutName, pressed, active) ==
    LET lookup == RouterLookup(m_shortcuts, shortcutName)
    IN  /\ active => pressed /\ shortcutName \in SyntheticIds
        /\ m_shortcuts' = lookup.shortcuts
        /\ invoked' =
             [i \in 1 .. Len(lookup.found) |->
                [name |-> lookup.found[i].name,
                 pressed |-> pressed,
                 calls |-> InvokeCallback(lookup.found[i].callbackFunc, pressed, active,
                                          scenes)]]
        /\ event' = Event(signal, shortcutName, session, TRUE)
        /\ sent' = <<>>
        /\ posted' = Tail(posted)
        /\ UNCHANGED << m_handleToken, m_sessionHandleToken, m_responseHandle,
                        m_sessionObjPath, m_isLoaded, responseSlots, activationSlots,
                        pending, hotkeys, scenes, status,
                        usedTokens, resyncPc, createPc >>

\* An Activated or Deactivated signal arrives on the bus while its
\* connection exists: one call of its slot is posted.
ArriveSignal(signal) ==
    /\ status = "alive"
    /\ signal \in activationSlots
    /\ Outstanding(pending, posted) < MaxPosted
    /\ posted' = Append(posted, SignalCall(signal))
    /\ UNCHANGED << m_handleToken, m_sessionHandleToken, m_responseHandle,
                    m_sessionObjPath, m_isLoaded, m_shortcuts, responseSlots,
                    activationSlots, pending, hotkeys, scenes, status, usedTokens,
                    event, sent, invoked, resyncPc, createPc >>

onActivatedSignal(session, shortcutName, active) ==
    /\ status = "alive"
    /\ LoopIdle
    /\ SlotTurn("Activated")
    /\ Route("Activated", session, shortcutName, TRUE, active)

\* onDeactivatedSignal passing true, as onActivatedSignal does.
onDeactivatedSignalPressed(session, shortcutName, active) ==
    /\ status = "alive"
    /\ LoopIdle
    /\ SlotTurn("Deactivated")
    /\ Route("Deactivated", session, shortcutName, TRUE, active)

onDeactivatedSignal(session, shortcutName, active) ==
    /\ status = "alive"
    /\ LoopIdle
    /\ SlotTurn("Deactivated")
    /\ Route("Deactivated", session, shortcutName, FALSE, active)

(***************************************************************************)
(* Session creation and its reply.                                         *)
(***************************************************************************)
\* createSession() up to the test of the message call() returned, `type`
\* being its type.  call() blocks the portal's thread until the answer is
\* in; the request path is kept and its Response connected only afterwards
\* (createSessionResume), so a Response may arrive before.  On anything but
\* a reply QMessageBox::critical opens, and until it is closed the box runs
\* the event loop: slots and queued calls run with m_responseHandle and the
\* connections as they were.  The portal's other methods are not called
\* from inside that loop.
createSession(type) ==
    /\ status = "alive"
    /\ LoopIdle
    /\ createPc = "none"
    /\ LET call == RemoteCall("CreateSession", "", <<>>, "", type)
       IN  /\ sent' = << call >>
           /\ pending' = PendingAfter(pending, call)
    /\ Outstanding(pending', posted) <= MaxPosted
    /\ createPc' = IF type = "ReplyMessage" THEN "returned" ELSE "box"
    /\ usedTokens' = usedTokens \cup { m_handleToken }
    /\ event' = Event("createSession", type, "", TRUE)
    /\ invoked' = <<>>
    /\ UNCHANGED << m_handleToken, m_sessionHandleToken, m_responseHandle,
                    m_sessionObjPath, m_isLoaded, m_shortcuts, responseSlots,
                    activationSlots, posted, hotkeys, scenes, status, resyncPc >>

\* createSession() goes on at line 76, after call() returned a reply or
\* after the box is closed.  A reply carries the request path.  An error
\* returned by the bus carries its text as the first argument, which
\* converts to the empty object path; an error made locally has no
\* arguments, and first() of the empty list is undefined: `ub` is "crash"
\* when that read ends the process and "none" when it yields the empty path.
createSessionResume(ub) ==
    /\ status = "alive"
    /\ createPc' = "none"
    /\ IF createPc = "returned"
       THEN /\ ub = "none"
            /\ m_responseHandle' = RequestPath(m_handleToken)
            /\ responseSlots' = responseSlots \cup { RequestPath(m_handleToken) }
            /\ UNCHANGED << status, event, sent, invoked >>
       ELSE /\ createPc = "box"
            /\ LoopIdle
            /\ IF ub = "crash"
               THEN /\ status' = "crashed"
                    /\ UNCHANGED << m_responseHandle, responseSlots >>
               ELSE /\ status' = status
                    /\ m_responseHandle' = ""
                    /\ responseSlots' = responseSlots \cup { "" }
            /\ event' = Event("createSessionResume", ub, "", TRUE)
            /\ sent' = <<>>
            /\ invoked' = <<>>
    /\ UNCHANGED << m_handleToken, m_sessionHandleToken, m_sessionObjPath, m_isLoaded,
                    m_shortcuts, activationSlots, pending, posted, hotkeys, scenes,
                    usedTokens, resyncPc >>

\* getVersion(): Properties.Get of "version", and what it returns.  A reply
\* carries the version; an error returned by the bus carries a text, which
\* converts to 0; first() of an error without arguments is undefined: it
\* ends the process or yields some number.
PortalVersions == { 1 }

getVersion(type, ub, version) ==
    /\ status = "alive"
    /\ LoopIdle
    /\ createPc = "none"
    /\ type = "ReplyMessage" => ub = "none" /\ version \in PortalVersions
    /\ type = "ErrorMessage" /\ ub = "none" => version = 0
    /\ ub = "crash" => version = 0
    /\ ub = "garbage" => type = "ErrorMessage"
    /\ sent' = << [RemoteCall("Get", "", <<>>, "", type) EXCEPT !.handle_token = ""] >>
    /\ status' = IF ub = "crash" THEN "crashed" ELSE status
    /\ event' = Event("getVersion", type, QStringNumber(version), ub # "crash")
    /\ invoked' = <<>>
    /\ UNCHANGED << m_handleToken, m_sessionHandleToken, m_responseHandle,
                    m_sessionObjPath, m_isLoaded, m_shortcuts, responseSlots,
                    activationSlots, pending, posted, hotkeys, scenes, usedTokens,
                    resyncPc, createPc >>

\* if (results.contains("session_handle")) m_sessionObjPath = ... else warn
SessionFromResults(results, current) ==
    IF results # <<>> THEN results[1] ELSE current

\* disconnect(..., m_responseHandle.path(), ..., "Response", ...)
DisconnectResponse(slots, responseHandle) == slots \ { responseHandle }

\* connect(..., "Activated", ...); connect(..., "Deactivated", ...)
ConnectActivation(slots) == slots \cup { "Activated", "Deactivated" }

\* The reply handler resyncing whether or not the host has loaded.
ResyncAlways(isLoaded) == TRUE

\* if (m_isLoaded) { createShortcuts(); bindShortcuts(); } else defer
ResyncNow(isLoaded) == isLoaded

\* bindShortcuts() alone: the registry is declared as the last resync left it.
BindOnly(session, waiting, windowId, type) ==
    LET call == RemoteCall("BindShortcuts", session, ShortcutList(m_shortcuts), windowId,
                           type)
    IN  /\ m_shortcuts' = m_shortcuts
        /\ sent' = << call >>
        /\ pending' = PendingAfter(waiting, call)
        /\ usedTokens' = usedTokens \cup { m_handleToken }

\* A resync whose failed bind puts the previous registry back.
ResyncAndBindRevert(session, waiting, windowId, type) ==
    LET rebuilt == createShortcuts(m_shortcuts, hotkeys, scenes)
        call == RemoteCall("BindShortcuts", session, ShortcutList(rebuilt), windowId, type)
    IN  /\ m_shortcuts' = IF type = "ErrorMessage" THEN m_shortcuts ELSE rebuilt
        /\ sent' = << call >>
        /\ pending' = PendingAfter(waiting, call)
        /\ usedTokens' = usedTokens \cup { m_handleToken }

\* createShortcuts(); bindShortcuts(): the registry is rebuilt from the host's
\* actions and declared to the portal with the session handle `session`;
\* `waiting` are the Responses still undelivered when the call is made.
ResyncAndBind(session, waiting, windowId, type) ==
    LET rebuilt == createShortcuts(m_shortcuts, hotkeys, scenes)
        call == RemoteCall("BindShortcuts", session, ShortcutList(rebuilt), windowId, type)
    IN  /\ m_shortcuts' = rebuilt
        /\ sent' = << call >>
        /\ pending' = PendingAfter(waiting, call)
        /\ usedTokens' = usedTokens \cup { m_handleToken }

\* onCreateSessionResponse(unsigned int, results); the response code is unused.
onCreateSessionResponse(results, waiting, windowId, type) ==
    LET session == SessionFromResults(results, m_sessionObjPath)
    IN  /\ m_sessionObjPath' = session
        /\ responseSlots' = DisconnectResponse(responseSlots, m_responseHandle)
        /\ activationSlots' = ConnectActivation(activationSlots)
        /\ IF ResyncNow(m_isLoaded)
           THEN ResyncAndBind(session, waiting, windowId, type)
           ELSE /\ sent' = <<>>
                /\ pending' = waiting
                /\ UNCHANGED << m_shortcuts, usedTokens >>

\* The connections a Response emitted at `path` matches: a connection made
\* with the empty path matches every path.
MatchingHooks(slots, path) == { h \in slots : h = "" \/ h = path }

\* The Response r arrives on the bus.  It is matched against the connections
\* that exist at that moment, on the thread of the bus, and one call of the
\* slot onCreateSessionResponse is posted for every connection it matches; a
\* Response that matches none is discarded.  A call once posted is run
\* whatever is disconnected before its turn.
ArriveResponse(r, results) ==
    /\ status = "alive"
    /\ r \in pending
    /\ results \in ResultsOf(r.method)
    /\ LET n == Cardinality(MatchingHooks(responseSlots, r.path))
           first == SlotCall(r.method, results, FALSE)
           second == SlotCall(r.method, results, TRUE)
       IN  /\ Outstanding(pending \ { r }, posted) + n <= MaxPosted
           /\ posted' = posted \o (IF n = 0 THEN <<>>
                                    ELSE IF n = 1 THEN << first >>
                                    ELSE << first, second >>)
    /\ pending' = pending \ { r }
    /\ UNCHANGED << m_handleToken, m_sessionHandleToken, m_responseHandle,
                    m_sessionObjPath, m_isLoaded, m_shortcuts, responseSlots,
                    activationSlots, hotkeys, scenes, status, usedTokens, event, sent,
                    invoked, resyncPc, createPc >>

\* The loop runs the slot call at the head of its queue.
DeliverResponse(windowId, type) ==
    /\ status = "alive"
    /\ LoopIdle
    /\ SlotTurn("Response")
    /\ posted' = Tail(posted)
    /\ onCreateSessionResponse(Head(posted).results, pending, windowId, type)
    /\ event' = Event("Response", Head(posted).method, FromUtf8(Head(posted).results), TRUE)
    /\ invoked' = <<>>
    /\ UNCHANGED << m_handleToken, m_sessionHandleToken, m_responseHandle, m_isLoaded,
                    hotkeys, scenes, status, resyncPc, createPc >>

(***************************************************************************)
(* Host events and the queued resync.                                      *)
(***************************************************************************)
ResyncEvents ==
    { "SCENE_LIST_CHANGED", "FINISHED_LOADING", "SCENE_COLLECTION_CHANGED",
      "PROFILE_CHANGED" }

\* A resync queued on every triggering event, whatever the session's state.
QueueResyncUngated(e, loaded, session) == e \in ResyncEvents

\* The two nested tests of obsFrontendEvent: a triggering event, and
\* m_isLoaded && !m_sessionObjPath.path().isEmpty()
QueueResync(e, loaded, session) == e \in ResyncEvents /\ loaded /\ session # ""

\* obsFrontendEvent(event, portal)
obsFrontendEvent(e) ==
    /\ status = "alive"
    /\ LoopIdle
    /\ LET loaded == IF e = "FINISHED_LOADING" THEN TRUE ELSE m_isLoaded
           queue == QueueResync(e, loaded, m_sessionObjPath)
       IN  /\ m_isLoaded' = loaded
           /\ queue => queued < MaxQueued /\ Outstanding(pending, posted) < MaxPosted
           /\ posted' = IF queue THEN Append(posted, QueuedLambda)
                        ELSE posted
           /\ event' = Event("obsFrontendEvent", e, "", queue)
    /\ sent' = <<>>
    /\ invoked' = <<>>
    /\ UNCHANGED << m_handleToken, m_sessionHandleToken, m_responseHandle,
                    m_sessionObjPath, m_shortcuts, responseSlots, activationSlots,
                    pending, hotkeys, scenes, status, usedTokens, resyncPc, createPc >>

\* The lambda obsFrontendEvent queued, at the head of the queue:
\* createShortcuts(); bindShortcuts();
QueuedResync(windowId, type) ==
    /\ status = "alive"
    /\ LoopIdle
    /\ SlotTurn("lambda")
    /\ posted' = Tail(posted)
    /\ ResyncAndBind(m_sessionObjPath, pending, windowId, type)
    /\ event' = Event("QueuedResync",
                       IF m_shortcuts' = m_shortcuts THEN "unchanged" ELSE "changed",
                       "", TRUE)
    /\ invoked' = <<>>
    /\ UNCHANGED << m_handleToken, m_sessionHandleToken, m_responseHandle,
                    m_sessionObjPath, m_isLoaded, responseSlots, activationSlots,
                    hotkeys, scenes, status, resyncPc, createPc >>

\* configureShortcuts()
configureShortcuts(windowId, type) ==
    /\ status = "alive"
    /\ LoopIdle
    /\ createPc = "none"
    /\ LET call == RemoteCall("ConfigureShortcuts", m_sessionObjPath, <<>>, windowId, type)
       IN  /\ sent' = << call >>
           /\ pending' = PendingAfter(pending, call)
    /\ Outstanding(pending', posted) <= MaxPosted
    /\ usedTokens' = usedTokens \cup { m_handleToken }
    /\ event' = Event("configureShortcuts", type, "", TRUE)
    /\ invoked' = <<>>
    /\ UNCHANGED << m_handleToken, m_sessionHandleToken, m_responseHandle,
                    m_sessionObjPath, m_isLoaded, m_shortcuts, responseSlots,
                    activationSlots, posted, hotkeys, scenes, status, resyncPc, createPc >>

\* ~ShortcutsPortal(): the frontend callback and the Activated and Deactivated
\* connections are removed; the members, the QObject's other connections and
\* its queued calls and posted slot calls end with the object.
Destroy ==
    /\ status = "alive"
    /\ LoopIdle
    /\ createPc = "none"
    /\ status' = "destroyed"
    /\ activationSlots' = {}
    /\ responseSlots' = {}
    /\ posted' = <<>>
    /\ m_responseHandle' = ""
    /\ m_sessionObjPath' = ""
    /\ m_isLoaded' = FALSE
    /\ m_shortcuts' = EmptyMap
    /\ event' = Event("destroy", "", "", TRUE)
    /\ sent' = <<>>
    /\ invoked' = <<>>
    /\ UNCHANGED << m_handleToken, m_sessionHandleToken, pending, hotkeys, scenes,
                    usedTokens, resyncPc, createPc >>

\* The handler returns to the event loop.
ReturnToEventLoop ==
    /\ status = "alive"
    /\ event # Idle
    /\ createPc # "returned"
    /\ event' = Idle
    /\ sent' = <<>>
    /\ invoked' = <<>>
    /\ UNCHANGED << m_handleToken, m_sessionHandleToken, m_responseHandle,
                    m_sessionObjPath, m_isLoaded, m_shortcuts, responseSlots,
                    activationSlots, pending, posted, hotkeys, scenes, status,
                    usedTokens, resyncPc, createPc >>

(***************************************************************************)
(* The host's own changes to its hotkeys and scenes.                       *)
(***************************************************************************)
\* The host changes at any time: between two handlers, or while a handler
\* of the portal's thread followed in steps is under way.
HostStep(newHotkeys, newScenes) ==
    /\ status = "alive"
    /\ MidHandler
    /\ hotkeys' = newHotkeys
    /\ scenes' = newScenes
    /\ UNCHANGED << m_handleToken, m_sessionHandleToken, m_responseHandle,
                    m_sessionObjPath, m_isLoaded, m_shortcuts, responseSlots,
                    activationSlots, pending, posted, status, usedTokens, event, sent,
                    invoked, resyncPc, createPc >>

HostRegisterHotkey(id) == id \notin hotkeys /\ HostStep(hotkeys \cup { id }, scenes)

HostUnregisterHotkey(id) == id \in hotkeys /\ HostStep(hotkeys \ { id }, scenes)

HostAddScene(n) == n \notin scenes /\ HostStep(hotkeys, scenes \cup { n })

HostRemoveScene(n) == n \in scenes /\ HostStep(hotkeys, scenes \ { n })

Next ==
    \/ \E type \in MessageTypes : createSession(type)
    \/ \E ub \in { "none", "crash" } : createSessionResume(ub)
    \/ \E type \in MessageTypes, ub \in { "none", "crash", "garbage" },
          version \in PortalVersions \cup { 0 } : getVersion(type, ub, version)
    \/ \E r \in pending, results \in ResultsOf("CreateSession") :
            MidHandler /\ ArriveResponse(r, results)
    \/ \E windowId \in WindowIds, type \in MessageTypes : DeliverResponse(windowId, type)
    \/ \E signal \in { "Activated", "Deactivated" } : MidHandler /\ ArriveSignal(signal)
    \/ \E session \in SignalSessions, shortcutName \in SignalIds(m_shortcuts), active \in BOOLEAN :
            onActivatedSignal(session, shortcutName, active)
    \/ \E session \in SignalSessions, shortcutName \in SignalIds(m_shortcuts), active \in BOOLEAN :
            onDeactivatedSignal(session, shortcutName, active)
    \/ \E e \in FrontendEvents : obsFrontendEvent(e)
    \/ \E windowId \in WindowIds, type \in MessageTypes : QueuedResync(windowId, type)
    \/ \E windowId \in WindowIds, type \in MessageTypes : configureShortcuts(windowId, type)
    \/ Destroy
    \/ ReturnToEventLoop
    \/ \E id \in LiveHotkeyIds : HostRegisterHotkey(id)
    \/ \E id \in LiveHotkeyIds : HostUnregisterHotkey(id)
    \/ \E n \in LiveSceneNames : HostAddScene(n)
    \/ \E n \in LiveSceneNames : HostRemoveScene(n)

Spec == Init /\ [][Next]_vars

(***************************************************************************)
(* The portal's thread in its steps.  obsFrontendEvent may be raised on    *)
(* any thread; the lambda it queues, the slots and the portal's methods    *)
(* run on the portal's thread, one after the other.  The reply handler is  *)
(* followed statement by statement and createShortcuts() pass by pass      *)
(* (clear, hotkeys, toggles, scenes and bind); `resyncPc` is the place the *)
(* portal's thread has reached, and `event` holds the arguments of the     *)
(* slot it is running.                                                     *)
(***************************************************************************)
\* The lambda run where obsFrontendEvent was raised (Qt::DirectConnection).
ResyncInCaller == FALSE

\* QMetaObject::invokeMethod(portal, lambda, Qt::QueuedConnection): the lambda
\* is a turn of the event loop of the portal's thread.
ResyncOnOwningLoop == TRUE

\* The loop of the portal's thread is free to start a handler.
LoopFree == LoopIdle /\ (ResyncOnOwningLoop => resyncPc = "none")

\* The portal's thread is assigning m_sessionObjPath (line 308).
StoringSession == resyncPc = "storing" /\ event.session # ""

\* obsFrontendEvent(event, portal) raised while the portal's thread may be
\* anywhere: it sets m_isLoaded and queues the lambda.  m_isLoaded and
\* m_sessionObjPath are read and written without synchronisation.  The
\* flag is read as it was before or after the write.  A read of the path
\* that meets its assignment is a data race: `seen` is the old or the new
\* path, and `ub` is "crash" when the read ends the process.
obsFrontendEventAnyThread(e, seen, ub) ==
    /\ status = "alive"
    /\ seen \in IF StoringSession THEN { m_sessionObjPath, event.session }
                ELSE { m_sessionObjPath }
    /\ LET loaded == IF e = "FINISHED_LOADING" THEN TRUE ELSE m_isLoaded
           queue == QueueResync(e, loaded, seen)
       IN  /\ m_isLoaded' = loaded
           /\ IF ub = "crash"
              THEN /\ StoringSession /\ e \in ResyncEvents /\ loaded
                   /\ seen = m_sessionObjPath
                   /\ status' = "crashed"
                   /\ posted' = posted
              ELSE /\ queue => queued < MaxQueued /\ Outstanding(pending, posted) < MaxPosted
                   /\ posted' = IF queue THEN Append(posted, QueuedLambda)
                                ELSE posted
                   /\ status' = status
    /\ UNCHANGED << m_handleToken, m_sessionHandleToken, m_responseHandle,
                    m_sessionObjPath, m_shortcuts, responseSlots, activationSlots,
                    pending, hotkeys, scenes, usedTokens, event, sent,
                    invoked, resyncPc, createPc >>

\* The loop runs the slot call at the head of its queue:
\* onCreateSessionResponse is entered.
ReplyBegin ==
    /\ status = "alive"
    /\ LoopFree
    /\ resyncPc = "none"
    /\ SlotTurn("Response")
    /\ posted' = Tail(posted)
    /\ resyncPc' = "storing"
    /\ event' = Event("Response", Head(posted).method, FromUtf8(Head(posted).results), TRUE)
    /\ sent' = <<>>
    /\ invoked' = <<>>
    /\ UNCHANGED << m_handleToken, m_sessionHandleToken, m_responseHandle,
                    m_sessionObjPath, m_isLoaded, m_shortcuts, responseSlots,
                    activationSlots, pending, hotkeys, scenes, status, usedTokens,
                    createPc >>

\* One statement of the slot.
ReplyStep(from, to) ==
    /\ status = "alive"
    /\ resyncPc = from
    /\ resyncPc' = to
    /\ UNCHANGED << m_handleToken, m_sessionHandleToken, m_responseHandle, m_isLoaded,
                    pending, posted, hotkeys, scenes, status, usedTokens, event, sent,
                    invoked, createPc >>

\* lines 306-312
ReplyStore ==
    /\ ReplyStep("storing", "stored")
    /\ m_sessionObjPath' =
          SessionFromResults(IF event.session = "" THEN <<>> ELSE << event.session >>,
                             m_sessionObjPath)
    /\ UNCHANGED << responseSlots, activationSlots, m_shortcuts >>

\* lines 314-321
ReplyDisconnect ==
    /\ ReplyStep("stored", "disconnected")
    /\ responseSlots' = DisconnectResponse(responseSlots, m_responseHandle)
    /\ UNCHANGED << m_sessionObjPath, activationSlots, m_shortcuts >>

\* lines 323-332
ReplyConnectActivated ==
    /\ ReplyStep("disconnected", "activated")
    /\ activationSlots' = activationSlots \cup { "Activated" }
    /\ UNCHANGED << m_sessionObjPath, responseSlots, m_shortcuts >>

\* lines 334-343
ReplyConnectDeactivated ==
    /\ ReplyStep("activated", "deactivated")
    /\ activationSlots' = activationSlots \cup { "Deactivated" }
    /\ UNCHANGED << m_sessionObjPath, responseSlots, m_shortcuts >>

\* line 345: m_isLoaded is read; the slot returns, or createShortcuts()
\* begins with m_shortcuts.clear().
ReplyBranch ==
    /\ IF ResyncNow(m_isLoaded)
       THEN /\ ReplyStep("deactivated", "cleared")
            /\ m_shortcuts' = Clear(m_shortcuts)
       ELSE /\ ReplyStep("deactivated", "none")
            /\ m_shortcuts' = m_shortcuts
    /\ UNCHANGED << m_sessionObjPath, responseSlots, activationSlots >>

\* One pass of createShortcuts(): the registry becomes `registry`.
ResyncPass(from, to, registry) ==
    /\ status = "alive"
    /\ resyncPc = from
    /\ resyncPc' = to
    /\ m_shortcuts' = registry
    /\ UNCHANGED << m_handleToken, m_sessionHandleToken, m_responseHandle,
                    m_sessionObjPath, m_isLoaded, responseSlots, activationSlots,
                    pending, hotkeys, scenes, status, usedTokens, event, sent,
                    invoked, createPc >>

\* The queued lambda starts: m_shortcuts.clear()
ResyncClear ==
    /\ queued > 0
    /\ ResyncOnOwningLoop => LoopIdle /\ SlotTurn("lambda")
    /\ posted' = WithoutFirstLambda(posted)
    /\ ResyncPass("none", "cleared", Clear(m_shortcuts))

\* obs_enum_hotkeys(...)
ResyncEnumHotkeys ==
    /\ UNCHANGED posted
    /\ ResyncPass("cleared", "hotkeys", EnumHotkeys(m_shortcuts, HotkeyOrder(hotkeys)))

\* the createShortcut("_toggle_...") calls
ResyncAddToggles ==
    /\ UNCHANGED posted
    /\ ResyncPass("hotkeys", "toggles", AddToggles(m_shortcuts))

\* the scene loop, then bindShortcuts(); the lambda or the slot returns.
ResyncAddScenesAndBind(windowId, type) ==
    LET rebuilt == AddScenes(m_shortcuts, SceneOrder(scenes))
        call == RemoteCall("BindShortcuts", m_sessionObjPath, ShortcutList(rebuilt),
                           windowId, type)
    IN  /\ status = "alive"
        /\ resyncPc = "toggles"
        /\ resyncPc' = "none"
        /\ m_shortcuts' = rebuilt
        /\ sent' = << call >>
        /\ pending' = PendingAfter(pending, call)
        /\ Outstanding(pending', posted) <= MaxPosted
        /\ usedTokens' = usedTokens \cup { m_handleToken }
        /\ event' = IF event = Idle THEN Event("QueuedResync", "passes", "", TRUE)
                     ELSE event
        /\ invoked' = <<>>
        /\ UNCHANGED << m_handleToken, m_sessionHandleToken, m_responseHandle,
                        m_sessionObjPath, m_isLoaded, responseSlots, activationSlots,
                        posted, hotkeys, scenes, status, createPc >>

NextThreads ==
    \/ \E type \in MessageTypes : LoopFree /\ createSession(type)
    \/ \E ub \in { "none", "crash" } : resyncPc = "none" /\ createSessionResume(ub)
    \/ \E type \in MessageTypes, ub \in { "none", "crash", "garbage" },
          version \in PortalVersions \cup { 0 } : LoopFree /\ getVersion(type, ub, version)
    \/ \E r \in pending, results \in ResultsOf("CreateSession") :
            MidHandler /\ ArriveResponse(r, results)
    \/ \E signal \in { "Activated", "Deactivated" } : MidHandler /\ ArriveSignal(signal)
    \/ ReplyBegin
    \/ ReplyStore
    \/ ReplyDisconnect
    \/ ReplyConnectActivated
    \/ ReplyConnectDeactivated
    \/ ReplyBranch
    \/ \E session \in SignalSessions, shortcutName \in SignalIds(m_shortcuts) :
            LoopFree /\ onActivatedSignal(session, shortcutName, FALSE)
    \/ \E session \in SignalSessions, shortcutName \in SignalIds(m_shortcuts) :
            LoopFree /\ onDeactivatedSignal(session, shortcutName, FALSE)
    \/ \E e \in FrontendEvents, seen \in SessionHandles \cup { "" },
          ub \in { "none", "crash" } : MidHandler /\ obsFrontendEventAnyThread(e, seen, ub)
    \/ ResyncClear
    \/ ResyncEnumHotkeys
    \/ ResyncAddToggles
    \/ \E windowId \in WindowIds, type \in MessageTypes :
            ResyncAddScenesAndBind(windowId, type)
    \/ \E windowId \in WindowIds, type \in MessageTypes :
            LoopFree /\ configureShortcuts(windowId, type)
    \/ LoopFree /\ Destroy
    \/ resyncPc = "none" /\ ReturnToEventLoop
    \/ \E id \in LiveHotkeyIds : HostRegisterHotkey(id)
    \/ \E id \in LiveHotkeyIds : HostUnregisterHotkey(id)
    \/ \E n \in LiveSceneNames : HostAddScene(n)
    \/ \E n \in LiveSceneNames : HostRemoveScene(n)

SpecThreads == Init /\ [][NextThreads]_vars

(***************************************************************************)
(* Identifier derivation on its own: one createShortcuts() after another   *)
(* over hotkey ids the host may use.  Here `hotkeys` and `scenes` are the  *)
(* actions the running createShortcuts() has visited so far.               *)
(***************************************************************************)
\* obs_hotkey_id values, several with digits in common.
DeriveIds == { 0, 1, 7, 10, 17, 70, 71, 100, 107, 170, 701, 1000 }

\* A hotkey without description, name or registerer.
AnonymousBinding(id) ==
    [id |-> id, description |-> <<>>, name |-> <<>>, registerer_type |-> "FRONTEND",
     registerer |-> FALSE, live |-> FALSE, registerer_name |-> <<>>]

DeriveFrame ==
    UNCHANGED << m_handleToken, m_sessionHandleToken, m_responseHandle,
                 m_sessionObjPath, m_isLoaded, responseSlots, activationSlots,
                 pending, posted, status, usedTokens, event, sent, invoked, createPc >>

\* The enumeration lambda called for one more hotkey.
DeriveHotkey(id) ==
    /\ resyncPc = "none"
    /\ id \notin hotkeys
    /\ Cardinality(hotkeys) < MaxDerived
    /\ m_shortcuts' = createShortcut(m_shortcuts, HotkeyUniqueId(id),
                                     HotkeyDescription(AnonymousBinding(id)),
                                     HotkeyCallback(id))
    /\ hotkeys' = hotkeys \cup { id }
    /\ UNCHANGED << scenes, resyncPc >>
    /\ DeriveFrame

DeriveToggles ==
    /\ resyncPc = "none"
    /\ resyncPc' = "toggles"
    /\ m_shortcuts' = AddToggles(m_shortcuts)
    /\ UNCHANGED << hotkeys, scenes >>
    /\ DeriveFrame

DeriveScenes(sc) ==
    /\ resyncPc = "toggles"
    /\ resyncPc' = "scenes"
    /\ scenes' = sc
    /\ m_shortcuts' = AddScenes(m_shortcuts, SceneOrder(sc))
    /\ UNCHANGED hotkeys
    /\ DeriveFrame

\* The next createShortcuts() begins: m_shortcuts.clear()
DeriveAgain ==
    /\ resyncPc = "scenes"
    /\ resyncPc' = "none"
    /\ m_shortcuts' = Clear(m_shortcuts)
    /\ hotkeys' = {}
    /\ scenes' = {}
    /\ DeriveFrame

NextDerive ==
    \/ \E id \in DeriveIds : DeriveHotkey(id)
    \/ DeriveToggles
    \/ \E sc \in SUBSET SceneNames : DeriveScenes(sc)
    \/ DeriveAgain

SpecDerive == Init /\ [][NextDerive]_vars

(***************************************************************************)
(* Resync and bind over the host's lists.  The session is established and  *)
(* the host has loaded; the host holds any of the first MaxHotkeys hotkeys *)
(* and any of the scenes of the pools, and its frontend events queue the   *)
(* lambda createShortcuts(); bindShortcuts().                              *)
(***************************************************************************)
\* The state Spec is in after createSession(), FINISHED_LOADING and the
\* Response with a session handle, the host holding no hotkey and no scene
\* and the handler's BindShortcuts answered by an error.
InitResync ==
    /\ m_handleToken = "obs_wayland_hotkeys"
    /\ m_sessionHandleToken = "obs_wayland_hotkeys_session"
    /\ m_responseHandle = RequestPath("obs_wayland_hotkeys")
    /\ m_sessionObjPath \in SignalSessions
    /\ m_isLoaded = TRUE
    /\ m_shortcuts = createShortcuts(EmptyMap, {}, {})
    /\ responseSlots = {}
    /\ activationSlots = ConnectActivation({})
    /\ pending = {}
    /\ posted = <<>>
    /\ hotkeys = {}
    /\ scenes = {}
    /\ status = "alive"
    /\ usedTokens = { "obs_wayland_hotkeys" }
    /\ event = Idle
    /\ sent = <<>>
    /\ invoked = <<>>
    /\ resyncPc = "none"
    /\ createPc = "none"

NextResync ==
    \/ \E e \in FrontendEvents : obsFrontendEvent(e)
    \/ \E windowId \in WindowIds, type \in MessageTypes : QueuedResync(windowId, type)
    \/ \E r \in pending, results \in ResultsOf("BindShortcuts") :
            MidHandler /\ ArriveResponse(r, results)
    \/ ReturnToEventLoop
    \/ \E id \in HotkeyIds : HostRegisterHotkey(id)
    \/ \E id \in HotkeyIds : HostUnregisterHotkey(id)
    \/ \E n \in SceneNames : HostAddScene(n)
    \/ \E n \in SceneNames : HostRemoveScene(n)

SpecResync == InitResync /\ [][NextResync]_vars

(***************************************************************************)
(* Properties.                                                             *)
(***************************************************************************)
BindCalls == { i \in 1 .. Len(sent) : sent[i].method = "BindShortcuts" }

\* The latest step rebuilt the registry and declared it.
Resynced == BindCalls # {}

\* A handler ran in this step (the loop was idle before it).
HandlerStep == event = Idle /\ event' # Idle

SignalHandled == event.ev \in { "Activated", "Deactivated" }

ReplyHandled == event.ev = "Response" /\ event.handled

\* The keys a resync is to produce from the host's actions.
KeysOfAll(hk, sc) ==
    { HotkeyUniqueId(id) : id \in hk } \cup SyntheticIds \cup { SceneId(n) : n \in sc }

NamedScenes(sc) == sc \ { "" }

\* C1: a BindShortcuts call is issued only while the session is Established,
\* and never carries an empty session handle.
C1_BindOnlyWhenEstablished ==
    \A i \in BindCalls : sent[i].session_handle # "" /\ m_sessionObjPath # ""

\* C2: a signal for an id of the registry invokes that id's callback exactly
\* once, with pressed = TRUE for Activated and FALSE for Deactivated, and no
\* other callback.
C2_ActivationRouting ==
    (SignalHandled /\ event.name \in DOMAIN m_shortcuts) =>
        /\ Len(invoked) = 1
        /\ invoked[1].name = event.name
        /\ invoked[1].pressed = (event.ev = "Activated")
        /\ \E active \in BOOLEAN :
              invoked[1].calls =
                  InvokeCallback(m_shortcuts[event.name].callbackFunc,
                                 event.ev = "Activated", active, scenes)

C2_Witness ==
    /\ event.ev = "Deactivated"
    /\ event.name = "hk_7"
    /\ Cardinality(DOMAIN m_shortcuts) > Cardinality(SyntheticIds)
    /\ Len(invoked) = 1

\* C3: a signal whose id is not in the registry invokes nothing, makes no
\* remote call, and leaves the registry, the session handle, the connections
\* and the pending replies as they were.
C3_UnknownIdNoop ==
    [][(HandlerStep /\ event'.ev \in { "Activated", "Deactivated" }
           /\ event'.name \notin DOMAIN m_shortcuts) =>
          /\ invoked' = <<>>
          /\ sent' = <<>>
          /\ status' = "alive"
          /\ posted' = Tail(posted)
          /\ UNCHANGED << m_shortcuts, m_sessionObjPath, m_responseHandle, m_isLoaded,
                          responseSlots, activationSlots, pending, usedTokens >>]_vars

C3_Witness ==
    /\ event.ev = "Activated"
    /\ event.name = "hk_999"
    /\ "hk_7" \in DOMAIN m_shortcuts
    /\ invoked = <<>>

\* C4 as stated: after a resync the registry holds one descriptor per hotkey
\* and per scene, under its derived id, and the synthetic toggles.
C4_OnePerAction ==
    Resynced =>
        /\ DOMAIN m_shortcuts = KeysOfAll(hotkeys, scenes)
        /\ Cardinality(DOMAIN m_shortcuts) =
              Cardinality(hotkeys) + Cardinality(scenes) + Cardinality(SyntheticIds)

\* C4 amended: after a resync of any list of hotkeys and scenes the registry
\* holds exactly one descriptor per hotkey and per scene whose name is not
\* empty, each under its derived id with its own callback, and the synthetic
\* toggles, none of them overwritten; no two actions share a descriptor.
C4_OnePerNamedAction ==
    Resynced =>
        /\ DOMAIN m_shortcuts = KeysOfAll(hotkeys, NamedScenes(scenes))
        /\ Cardinality(DOMAIN m_shortcuts) =
              Cardinality(hotkeys) + Cardinality(NamedScenes(scenes))
                  + Cardinality(SyntheticIds)
        /\ \A k \in DOMAIN m_shortcuts : m_shortcuts[k].name = k
        /\ \A id \in hotkeys :
              m_shortcuts[HotkeyUniqueId(id)].callbackFunc = HotkeyCallback(id)
        /\ \A n \in NamedScenes(scenes) :
              m_shortcuts[SceneId(n)].callbackFunc = SceneCallback(n)
        /\ \A k \in SyntheticIds :
              m_shortcuts[k].callbackFunc.kind \notin { "hotkey", "scene" }

C4_Witness ==
    /\ Resynced
    /\ Cardinality(hotkeys) >= 2
    /\ Cardinality(NamedScenes(scenes)) >= 2
    /\ "" \in scenes

\* C5: a resync of the actions the registry was already built from leaves the
\* registry as it is, and after any resync no id remains that the current
\* actions do not derive.
C5_ResyncIdempotent ==
    [][(HandlerStep /\ BindCalls' # {}) =>
          /\ (m_shortcuts = createShortcuts(EmptyMap, hotkeys, scenes)
                 => m_shortcuts' = m_shortcuts)
          /\ DOMAIN m_shortcuts' \subseteq KeysOfAll(hotkeys', scenes')]_vars

C5_Witness ==
    /\ event.ev = "QueuedResync"
    /\ event.name = "unchanged"
    /\ hotkeys # {}
    /\ "Scene" \in scenes

\* C6: every request carries a token that no earlier request carried.
C6_FreshTokens ==
    [][HandlerStep =>
          \A i \in 1 .. Len(sent') : sent'[i].handle_token \notin usedTokens]_vars

\* C7: the create-session reply handler runs only for the reply to the
\* CreateSession request.
C7_ReplyCorrelation == ReplyHandled => event.name = "CreateSession"

\* C8: a reply without session_handle leaves the session unestablished, the
\* activation listeners uninstalled, and triggers no resync or bind.
C8_MalformedReplyFails ==
    (ReplyHandled /\ event.session = "") =>
        /\ m_sessionObjPath = ""
        /\ activationSlots = {}
        /\ sent = <<>>

\* C9: once CreateSession has failed at the transport level with no session
\* established, the session handle is not set and no BindShortcuts is issued.
C9_CreateFailureFatal ==
    [][("" \in responseSlots /\ m_sessionObjPath = "") =>
          (m_sessionObjPath' = "" /\ BindCalls' = {})]_vars

\* C10 as stated: a reply with session_handle stores the handle, removes the
\* reply listener, installs the activation listeners and triggers a resync
\* followed by a bind.
C10_ReplyEstablishesAndBinds ==
    (ReplyHandled /\ event.session # "") =>
        /\ m_sessionObjPath = event.session
        /\ RequestPath(m_handleToken) \notin responseSlots
        /\ activationSlots = { "Activated", "Deactivated" }
        /\ Resynced

\* C10 amended: a reply with session_handle stores the handle, disconnects the
\* listener on the request path createSession last stored, installs the
\* activation listeners and, when the host has finished loading, rebuilds the
\* registry and binds it with that handle; when it has not, it makes no call
\* and leaves the registry as it is.
C10_ReplyEstablishes ==
    [][(HandlerStep /\ event'.ev = "Response" /\ event'.handled
           /\ event'.session # "") =>
          /\ m_sessionObjPath' = event'.session
          /\ m_responseHandle \notin responseSlots'
          /\ activationSlots' = { "Activated", "Deactivated" }
          /\ IF m_isLoaded
             THEN /\ Len(sent') = 1
                  /\ sent'[1].method = "BindShortcuts"
                  /\ sent'[1].session_handle = event'.session
                  /\ sent'[1].shortcuts = ShortcutList(m_shortcuts')
                  /\ DOMAIN m_shortcuts' = KeysOfAll(hotkeys, NamedScenes(scenes))
             ELSE /\ sent' = <<>>
                  /\ m_shortcuts' = m_shortcuts]_vars

C10_Witness ==
    /\ ReplyHandled
    /\ event.session # ""
    /\ m_isLoaded
    /\ Resynced
    /\ hotkeys # {}

\* C11 as stated: a resync trigger handled before the session is established
\* leaves the registry rebuilt from the host's current actions.
C11_RebuildBeforeEstablished ==
    (event.ev = "obsFrontendEvent" /\ event.name \in ResyncEvents
        /\ m_sessionObjPath = "") =>
        m_shortcuts = createShortcuts(EmptyMap, hotkeys, scenes)

\* C11 amended: no frontend event rebuilds the registry or makes a call.  A
\* resync trigger handled while the session handle is unset, or while the
\* host has not finished loading (FINISHED_LOADING itself marks it loaded),
\* is ignored: it queues nothing.  Handled with the handle set and the host
\* loaded it queues one resync.  The registry is rebuilt, from the host's
\* actions of that step, only by a queued resync and by the reply handler
\* once the host has loaded, with or without a session handle stored.
C11_TriggerIgnoredBeforeEstablished ==
    [][HandlerStep =>
          /\ event'.ev = "obsFrontendEvent" =>
                /\ sent' = <<>>
                /\ m_shortcuts' = m_shortcuts
                /\ IF /\ event'.name \in ResyncEvents
                      /\ m_sessionObjPath # ""
                      /\ m_isLoaded \/ event'.name = "FINISHED_LOADING"
                   THEN event'.handled /\ queued' = queued + 1
                   ELSE ~event'.handled /\ queued' = queued
          /\ (m_shortcuts' # m_shortcuts /\ status' = "alive") =>
                /\ event'.ev \in { "QueuedResync", "Response" }
                /\ m_isLoaded
                /\ m_shortcuts' = createShortcuts(EmptyMap, hotkeys, scenes)
          /\ (event'.ev = "QueuedResync" \/ (event'.ev = "Response" /\ m_isLoaded)) =>
                m_shortcuts' = createShortcuts(EmptyMap, hotkeys, scenes)]_vars

C11_Witness ==
    /\ event.ev = "obsFrontendEvent"
    /\ event.name = "SCENE_LIST_CHANGED"
    /\ m_sessionObjPath = ""
    /\ m_isLoaded
    /\ hotkeys # {}
    /\ m_shortcuts = EmptyMap

\* The (id, label) pairs of the registry.
RegistryPairs ==
    { [name |-> m_shortcuts[k].name, description |-> m_shortcuts[k].description] :
        k \in DOMAIN m_shortcuts }

\* C12 as stated: the list of every BindShortcuts call has one entry per host
\* action and per synthetic toggle, so one more host action is one more entry.
C12_ListCountsEveryAction ==
    \A i \in BindCalls :
        Len(sent[i].shortcuts) =
            Cardinality(hotkeys) + Cardinality(scenes) + Cardinality(SyntheticIds)

\* C12 amended: the list of every BindShortcuts call is exactly the (id,
\* label) pairs of the registry, one entry per descriptor; its length is the
\* number of hotkeys and of scenes with a name plus the toggles.
C12_BindDeclaresRegistry ==
    \A i \in BindCalls :
        LET list == sent[i].shortcuts
        IN  /\ { list[j] : j \in 1 .. Len(list) } = RegistryPairs
            /\ Len(list) = Cardinality(DOMAIN m_shortcuts)
            /\ \A j \in 1 .. Len(list), k \in 1 .. Len(list) :
                  list[j].name = list[k].name => j = k
            /\ \A j \in 1 .. Len(list) : list[j].name \in DOMAIN m_shortcuts
            /\ Len(list) = Cardinality(hotkeys) + Cardinality(NamedScenes(scenes))
                              + Cardinality(SyntheticIds)

C12_Witness ==
    /\ BindCalls # {}
    /\ Cardinality(hotkeys) = 2
    /\ scenes = { "Scene", "Game", "" }
    /\ Len(sent[1].shortcuts) = Cardinality(SyntheticIds) + 4
    /\ \E j \in 1 .. Len(sent[1].shortcuts) :
          sent[1].shortcuts[j].description = "Switch to scene 'Game'"

\* C13: a BindShortcuts call answered by an error is the only call of its
\* step (no retry), queues no resync, leaves the process alive, the session
\* handle as the call carried it and the registry as the resync rebuilt it;
\* and a BindShortcuts call is only ever made by a queued resync or by the
\* reply handler.
C13_BindFailureLocal ==
    [][/\ (HandlerStep /\ \E i \in BindCalls' : sent'[i].type = "ErrorMessage") =>
             /\ Len(sent') = 1
             /\ queued' <= queued
             /\ pending' \subseteq pending
             /\ status' = "alive"
             /\ m_isLoaded' = m_isLoaded
             /\ m_sessionObjPath' = sent'[1].session_handle
             /\ event'.ev = "QueuedResync" =>
                   /\ m_sessionObjPath' = m_sessionObjPath
                   /\ activationSlots' = activationSlots
                   /\ responseSlots' = responseSlots
             /\ m_shortcuts' = createShortcuts(EmptyMap, hotkeys, scenes)
       /\ BindCalls' # {} => event'.ev \in { "QueuedResync", "Response" }]_vars

C13_Witness ==
    /\ BindCalls # {}
    /\ sent[1].type = "ErrorMessage"
    /\ event.ev = "QueuedResync"
    /\ event.name = "changed"
    /\ m_sessionObjPath # ""
    /\ hotkeys # {}

\* C14: createSession called while a reply is awaited or a session handle is
\* stored sends no CreateSession request, and a stored session handle is
\* never cleared or replaced while the object lives.
C14_OneSession ==
    [][/\ (HandlerStep /\ event'.ev = "createSession"
             /\ (responseSlots # {} \/ m_sessionObjPath # "")) => sent' = <<>>
       /\ (m_sessionObjPath # "" /\ status' = "alive") =>
             m_sessionObjPath' = m_sessionObjPath]_vars

\* The registries a complete createShortcuts() can leave.
CompleteRegistries ==
    { createShortcuts(EmptyMap, hk, sc) :
        hk \in SUBSET LiveHotkeyIds, sc \in SUBSET LiveSceneNames }

\* C15: whatever the interleaving of frontend events raised on any thread,
\* queued resyncs and signals, a signal is handled while no createShortcuts()
\* pass is in progress: the registry it looks up is the one never built yet
\* or one a complete pass has left.
C15_ResyncAtomic ==
    SignalHandled =>
        /\ resyncPc = "none"
        /\ m_shortcuts = EmptyMap \/ m_shortcuts \in CompleteRegistries

C15_Witness ==
    /\ event.ev = "Activated"
    /\ queued > 0
    /\ hotkeys # {}
    /\ m_shortcuts \in CompleteRegistries
    /\ DOMAIN m_shortcuts = SyntheticIds
    /\ Len(invoked) = 1

\* C16: a signal that names a session other than the stored one invokes no
\* callback.
C16_ForeignSessionFiltered ==
    (SignalHandled /\ m_sessionObjPath # "" /\ event.session # m_sessionObjPath) =>
        invoked = <<>>

\* C17: in every createShortcuts() the hotkeys visited have pairwise distinct
\* ids "hk_" + decimal id, each id's entry is that hotkey's own, none is a
\* synthetic id, and the toggles keep their own callbacks.
C17_DerivationInjective ==
    /\ \A a, b \in hotkeys : HotkeyUniqueId(a) = HotkeyUniqueId(b) => a = b
    /\ \A a \in hotkeys :
          /\ HotkeyUniqueId(a) \in DOMAIN m_shortcuts
          /\ HotkeyUniqueId(a) \notin SyntheticIds
          /\ HotkeyUniqueId(a) = "hk_" \o QStringNumber(a)
          /\ m_shortcuts[HotkeyUniqueId(a)].callbackFunc = HotkeyCallback(a)
    /\ Cardinality(DOMAIN m_shortcuts \ (SyntheticIds \cup { SceneId(n) : n \in scenes }))
          = Cardinality(hotkeys)
    /\ resyncPc # "none" =>
          \A k \in SyntheticIds :
              k \in DOMAIN m_shortcuts /\ m_shortcuts[k].callbackFunc.kind # "hotkey"

C17_Witness ==
    /\ resyncPc = "scenes"
    /\ { 7, 70, 107 } \subseteq hotkeys
    /\ scenes = { "Scene" }
    /\ Cardinality(DOMAIN m_shortcuts) = Cardinality(SyntheticIds) + 4

\* C18: a reply with a session handle that arrives before the host has
\* loaded sends nothing, and no resync and bind is performed before both the
\* reply with a session handle and FINISHED_LOADING have occurred.
C18_FirstBindAfterBoth ==
    /\ (ReplyHandled /\ event.session # "" /\ ~m_isLoaded) => sent = <<>>
    /\ Resynced => (m_isLoaded /\ m_sessionObjPath # "")

\* C19: the step that sends BindShortcuts has rebuilt the registry from the
\* host's hotkeys and scenes as they are at that step, and the list sent is
\* that rebuild's; no other handler runs between the rebuild and the call.
C19_BindFollowsRebuild ==
    \A i \in BindCalls :
        /\ event.ev \in { "QueuedResync", "Response" }
        /\ m_shortcuts = createShortcuts(EmptyMap, hotkeys, scenes)
        /\ sent[i].shortcuts = ShortcutList(createShortcuts(EmptyMap, hotkeys, scenes))
        /\ i = 1 /\ Len(sent) = 1

C19_Witness ==
    /\ event.ev = "QueuedResync"
    /\ event.name = "changed"
    /\ BindCalls # {}
    /\ hotkeys # {}
    /\ \E j \in 1 .. Len(sent[1].shortcuts) : sent[1].shortcuts[j].name = "hk_7"

\* What each synthetic toggle asks, and calls to stop and to start.
ToggleApi ==
    [ _toggle_recording |->
        << "obs_frontend_recording_active", "obs_frontend_recording_stop",
           "obs_frontend_recording_start" >>,
      _toggle_streaming |->
        << "obs_frontend_streaming_active", "obs_frontend_streaming_stop",
           "obs_frontend_streaming_start" >>,
      _toggle_replay_buffer |->
        << "obs_frontend_replay_buffer_active", "obs_frontend_replay_buffer_stop",
           "obs_frontend_replay_buffer_start" >>,
      _toggle_virtualcam |->
        << "obs_frontend_virtualcam_active", "obs_frontend_stop_virtualcam",
           "obs_frontend_start_virtualcam" >>,
      _toggle_studio_mode |->
        << "obs_frontend_preview_program_mode_active",
           "obs_frontend_set_preview_program_mode",
           "obs_frontend_set_preview_program_mode" >> ]

\* C20: Activated for a synthetic toggle asks the host's state once and makes
\* the one call that flips it (stop when active, start when not);
\* Deactivated for it calls nothing; a hotkey's shortcut forwards both, with
\* pressed true for Activated and false for Deactivated.
C20_TogglesOnPressOnly ==
    (SignalHandled /\ event.name \in DOMAIN m_shortcuts) =>
        /\ Len(invoked) = 1
        /\ event.name \in SyntheticIds =>
              LET calls == invoked[1].calls
                  api == ToggleApi[event.name]
              IN  IF event.ev = "Deactivated" THEN calls = <<>>
                  ELSE /\ Len(calls) = 2
                       /\ calls[1].fn = api[1]
                       /\ calls[2].fn = (IF calls[1].flag THEN api[2] ELSE api[3])
                       /\ calls[2].flag = ~calls[1].flag
        /\ \A id \in hotkeys \cup HotkeyIds :
              event.name = HotkeyUniqueId(id) =>
                  invoked[1].calls =
                      << HostCall("obs_hotkey_trigger_routed_callback", id, "",
                                  event.ev = "Activated") >>

C20_Witness ==
    /\ event.ev = "Activated"
    /\ event.name = "_toggle_studio_mode"
    /\ Len(invoked) = 1
    /\ invoked[1].calls =
          << HostCall("obs_frontend_preview_program_mode_active", 0, "", TRUE),
             HostCall("obs_frontend_set_preview_program_mode", 0, "", FALSE) >>

====
